---------------------------- MODULE Spec2Model ----------------------------
(***************************************************************************)
(* Model of wabot.py: the contact normaliser, the send ledger              *)
(* (sent_log.csv), and the dispatch loop of main().                        *)
(*                                                                         *)
(* Text is modelled as a sequence of one-character strings.  A few longer  *)
(* strings ("timestamp", "text_send_error: ", ...) stand for runs of       *)
(* characters that contain neither a comma nor a line break; they are      *)
(* never split.                                                            *)
(***************************************************************************)
EXTENDS Integers, Sequences, FiniteSets, TLC

VARIABLES
    cfg,                \* the configuration of the run (load_config)
    rows,               \* the rows of the contacts spreadsheet
    ledger,             \* the file sent_log.csv: [exists, text]
    ledger0,            \* the ledger as the current run found it
    pc,                 \* where main() is
    run,                \* how many runs have been started on this ledger
    maxRuns,            \* how many runs the operator starts in all
    contacts,           \* main's `contacts`
    sent_already,       \* main's `sent_already`
    idx,                \* position of the for-loop in contacts
    sent_count,         \* main's `sent_count`
    failures_in_a_row,  \* main's `failures_in_a_row`
    driver,             \* the browser session: "none", "open", "closed"
    last,               \* what the last loop iteration did (observation)
    hist,               \* the attempts of the current run, oldest first
    delivered,          \* every successful send of all runs, oldest first
    fin                 \* input and result of the pure functions under test

vars == <<cfg, rows, ledger, ledger0, pc, run, maxRuns, contacts, sent_already, idx,
          sent_count, failures_in_a_row, driver, last, hist, delivered, fin>>

---------------------------------------------------------------------------
(* Text helpers                                                            *)

Digits == {"0", "1", "2", "3", "4", "5", "6", "7", "8", "9"}

IsDigit(c) == c \in Digits

Rep(c, n) == [i \in 1..n |-> c]

StartsWith(s, p) == Len(s) >= Len(p) /\ SubSeq(s, 1, Len(p)) = p

IsPrefix(p, s) == StartsWith(s, p)

RECURSIVE LStrip(_, _)
\* str.lstrip(c): drop every leading c
LStrip(s, c) ==
    IF s # <<>> /\ Head(s) = c THEN LStrip(Tail(s), c) ELSE s

RECURSIVE Replace(_, _, _)
\* str.replace(a, b) for one-character a
Replace(s, a, b) ==
    IF s = <<>> THEN <<>>
    ELSE <<IF Head(s) = a THEN b ELSE Head(s)>> \o Replace(Tail(s), a, b)

RECURSIVE Split(_, _)
\* str.split(sep) for one-character sep: always at least one piece
Split(s, sep) ==
    IF \A i \in 1..Len(s) : s[i] # sep THEN <<s>>
    ELSE LET k == CHOOSE i \in 1..Len(s) :
                      s[i] = sep /\ \A j \in 1..(i - 1) : s[j] # sep
         IN  <<SubSeq(s, 1, k - 1)>> \o Split(SubSeq(s, k + 1, Len(s)), sep)

---------------------------------------------------------------------------
(* Contact normaliser                                                      *)

LocalLen == 10
MinPhoneLen == 10

\* str(raw) at line 44: a spreadsheet cell is text, an integer, or a float
\* (pandas reads a numeric column that has a blank cell as float64, the
\* blank cell as nan).
PyStr(cell) ==
    CASE cell.kind = "float" -> cell.text \o <<".", "0">>
      [] cell.kind = "nan"   -> <<"n", "a", "n">>
      [] OTHER               -> cell.text

normalize_number_nocheck(raw, default_cc) ==
    LET s  == SelectSeq(raw, IsDigit)
        s2 == IF StartsWith(s, <<"0">>) THEN LStrip(s, "0") ELSE s
    IN  IF Len(s2) = LocalLen THEN default_cc \o s2 ELSE s2

normalize_number(raw, default_cc) ==
    LET s  == SelectSeq(raw, IsDigit)
        s2 == IF StartsWith(s, <<"0">>) THEN LStrip(s, "0") ELSE s
    IN  IF Len(s2) = LocalLen /\ ~StartsWith(s2, default_cc)
        THEN default_cc \o s2
        ELSE s2

\* the lambda of line 60 applied to one cell
PhoneNorm(cell, default_cc) ==
    IF cell.kind = "none" THEN <<>>
    ELSE normalize_number(PyStr(cell), default_cc)

RECURSIVE DropDuplicates(_, _)
\* DataFrame.drop_duplicates(subset=["PhoneNorm"]): keep the first of each
DropDuplicates(df, seen) ==
    IF df = <<>> THEN <<>>
    ELSE IF Head(df).Phone \in seen
         THEN DropDuplicates(Tail(df), seen)
         ELSE <<Head(df)>> \o DropDuplicates(Tail(df), seen \cup {Head(df).Phone})

RECURSIVE KeepLast(_, _)
KeepLast(df, seen) ==
    IF df = <<>> THEN <<>>
    ELSE LET rest == KeepLast(Tail(df), seen)
         IN  IF \E i \in 1..Len(rest) : rest[i].Phone = Head(df).Phone
             THEN rest
             ELSE <<Head(df)>> \o rest

load_contacts_keeplast(xlsx, default_cc) ==
    LET normed == [i \in 1..Len(xlsx) |->
                     [Name |-> xlsx[i].Name,
                      Phone |-> PhoneNorm(xlsx[i].Phone, default_cc)]]
        longEnough(r) == Len(r.Phone) >= MinPhoneLen
    IN  KeepLast(SelectSeq(normed, longEnough), {})

load_contacts(xlsx, default_cc) ==
    LET normed == [i \in 1..Len(xlsx) |->
                     [Name |-> xlsx[i].Name,
                      Phone |-> PhoneNorm(xlsx[i].Phone, default_cc)]]
        longEnough(r) == Len(r.Phone) >= MinPhoneLen
    IN  DropDuplicates(SelectSeq(normed, longEnough), {})

---------------------------------------------------------------------------
(* Send ledger: sent_log.csv                                               *)

NL == "\n"
COMMA == ","

HeaderLine == <<"timestamp", COMMA, "phone", COMMA, "status", COMMA, "note", NL>>

\* datetime.now().isoformat(timespec='seconds'): no comma, no line break
Timestamp == <<"2024-01-01T10:00:00">>

NoLedger == [exists |-> FALSE, text |-> <<>>]

append_log_rewrite(led, phone, status, note) ==
    [exists |-> TRUE,
     text   |-> HeaderLine
                \o Timestamp \o <<COMMA>> \o phone \o <<COMMA>> \o status
                \o <<COMMA>> \o Replace(note, COMMA, ";") \o <<NL>>]

\* open(path, "a"): the old text stays, the new text goes after it
append_log(led, phone, status, note) ==
    [exists |-> TRUE,
     text   |-> led.text
                \o (IF ~led.exists THEN HeaderLine ELSE <<>>)
                \o Timestamp \o <<COMMA>> \o phone \o <<COMMA>> \o status
                \o <<COMMA>> \o Replace(note, COMMA, ";") \o <<NL>>]

(* pandas.read_csv as line 70 calls it (C parser, defaults): blank lines   *)
(* are skipped, the first line names the columns, a line with fewer fields *)
(* is padded with NaN, a line with more fields is a ParserError.           *)
NA == <<"<NA>">>

IsBlank(line) == line = <<>>

CsvRecords(text) ==
    LET lines == SelectSeq(Split(text, NL), LAMBDA l : ~IsBlank(l))
    IN  [i \in 1..Len(lines) |-> Split(lines[i], COMMA)]

ColumnIndex(header, name) ==
    IF \E i \in 1..Len(header) : header[i] = <<name>>
    THEN CHOOSE i \in 1..Len(header) :
             header[i] = <<name>> /\ \A j \in 1..(i - 1) : header[j] # <<name>>
    ELSE 0

\* the value of column k in a data record: a missing or empty field is NaN
Cell(rec, k) == IF k <= Len(rec) /\ rec[k] # <<>> THEN rec[k] ELSE NA

\* what the parser reads as an int64: an optional sign and up to 18 digits
\* (a longer field may not fit and is then kept as text)
IsIntLike(v) ==
    LET d == IF v # <<>> /\ Head(v) \in {"+", "-"} THEN Tail(v) ELSE v
    IN  d # <<>> /\ Len(d) <= 18 /\ \A i \in 1..Len(d) : IsDigit(d[i])

\* str(int(v))
IntStr(v) ==
    LET neg == v # <<>> /\ Head(v) = "-"
        d   == IF v # <<>> /\ Head(v) \in {"+", "-"} THEN Tail(v) ELSE v
        m   == LStrip(d, "0")
    IN  IF m = <<>> THEN <<"0">> ELSE (IF neg THEN <<"-">> ELSE <<>>) \o m

\* str(float(v)) of an integer: "<digits>.0" up to 15 digits, the exponent
\* form beyond (its digits are not modelled)
FloatStr(v) ==
    IF Len(IntStr(v)) <= 15 THEN IntStr(v) \o <<".", "0">>
    ELSE <<Head(IntStr(v)), ".", "...", "e+", "..">>

(* Series.astype(str) of a parsed column.  The parser infers one dtype for *)
(* the whole column: int64 when every field is an integer, float64 when    *)
(* every field is an integer or missing, text otherwise.                   *)
ColumnAsStr(col) ==
    LET present == {i \in 1..Len(col) : col[i] # NA}
        allInt  == \A i \in present : IsIntLike(col[i])
        hasNA   == present # 1..Len(col)
    IN  [i \in 1..Len(col) |->
            IF col[i] = NA THEN <<"n", "a", "n">>
            ELSE IF allInt /\ ~hasNA THEN IntStr(col[i])
            ELSE IF allInt THEN FloatStr(col[i])
            ELSE col[i]]

load_sent_log(led) ==
    IF ~led.exists THEN {}
    ELSE
      LET recs == CsvRecords(led.text)
      IN  IF recs = <<>> THEN {}                         \* EmptyDataError
          ELSE
            LET header == recs[1]
                data   == Tail(recs)
                pcol   == ColumnIndex(header, "phone")
                scol   == ColumnIndex(header, "status")
            IN  IF \E i \in 1..Len(data) : Len(data[i]) > Len(header)
                THEN {}                                  \* ParserError
                ELSE IF pcol = 0 \/ scol = 0 THEN {}     \* KeyError
                ELSE
                  LET phones == ColumnAsStr([i \in 1..Len(data) |-> Cell(data[i], pcol)])
                  IN  {phones[i] : i \in {j \in 1..Len(data) :
                                            Cell(data[j], scol) = <<"sent">>}}

---------------------------------------------------------------------------
(* Send protocol, as main() sees it.  `d` says what the browser does       *)
(* during one attempt; the functions return what the code returns or       *)
(* raises for that behaviour.                                              *)

\* str(e) of the TimeoutException raised at line 113 (selenium formats an
\* exception as "Message: <msg>\n", then the stack trace if there is one)
TimeoutMsg == <<"Message: Composer not found. Are you logged in?", NL>>

\* str(e) of an exception the browser driver reports
DriverMsg == <<"Message: element click intercepted at point (599", COMMA, " 22)", NL,
               "  (Session info: chrome=120.0)", NL,
               "Stacktrace:", NL,
               "#0 0x55d0 <unknown>">>

\* str(e) of the RuntimeError raised at line 165
NoFileInputMsg == <<"Could not find file input to upload media.">>

DriverBehaviours ==
    [get        : {"ok", "raise"},
     composer   : {"visible", "timeout"},
     enter      : {"ok", "raise"},
     file_input : {"found", "absent"},
     upload     : {"ok", "raise"},
     send_btn   : {"clicked", "none"},
     fallback   : {"ok", "fail"}]

Returned(ok, note) == [raised |-> FALSE, ok |-> ok, note |-> note, exc |-> <<>>]
Raised(e)          == [raised |-> TRUE, ok |-> FALSE, note |-> <<>>, exc |-> e]

send_text_only(d) ==
    IF d.get = "raise" THEN Raised(DriverMsg)
    ELSE IF d.composer = "timeout"
         THEN Returned(FALSE, <<"text_send_error: ">> \o TimeoutMsg)
    ELSE IF d.enter = "raise"
         THEN Returned(FALSE, <<"text_send_error: ">> \o DriverMsg)
    ELSE Returned(TRUE, <<>>)

\* TRUE / FALSE as returned, or the message of the exception it raises
attach_and_send_media(d) ==
    IF d.file_input = "absent" THEN [raised |-> TRUE, ok |-> FALSE, exc |-> NoFileInputMsg]
    ELSE IF d.upload = "raise" THEN [raised |-> TRUE, ok |-> FALSE, exc |-> DriverMsg]
    ELSE IF d.send_btn = "clicked" THEN [raised |-> FALSE, ok |-> TRUE, exc |-> <<>>]
    ELSE IF d.fallback = "ok" THEN [raised |-> FALSE, ok |-> TRUE, exc |-> <<>>]
    ELSE [raised |-> FALSE, ok |-> FALSE, exc |-> <<>>]

send_text_and_media(d) ==
    IF d.get = "raise" THEN Raised(DriverMsg)
    ELSE IF d.composer = "timeout"
         THEN Returned(FALSE, <<"media_send_error: ">> \o TimeoutMsg)
    ELSE LET r == attach_and_send_media(d)
         IN  IF r.raised THEN Returned(FALSE, <<"media_send_error: ">> \o r.exc)
             ELSE IF r.ok THEN Returned(TRUE, <<>>)
             ELSE Returned(FALSE, <<"media_send_failed">>)

\* lines 257-267: ok and note after the try/except around the protocol
SendOutcome_uncaught(c, d) ==
    LET r == IF c.media_path # <<>> THEN send_text_and_media(d) ELSE send_text_only(d)
    IN  IF r.raised
        THEN [ok |-> TRUE, note |-> <<"exception: ">> \o r.exc, raised |-> TRUE]
        ELSE [ok |-> r.ok, note |-> r.note, raised |-> FALSE]

SendOutcome(c, d) ==
    LET r == IF c.media_path # <<>> THEN send_text_and_media(d) ELSE send_text_only(d)
    IN  IF r.raised
        THEN [ok |-> FALSE, note |-> <<"exception: ">> \o r.exc, raised |-> TRUE]
        ELSE [ok |-> r.ok, note |-> r.note, raised |-> FALSE]

---------------------------------------------------------------------------
(* Dispatch loop of main()                                                 *)

BreakerLimit == 5

Max(a, b) == IF a >= b THEN a ELSE b
Min(a, b) == IF a <= b THEN a ELSE b

\* random.uniform(a, b): a value between the two, whichever is larger
Uniform(a, b) == Min(a, b)..Max(a, b)

\* line 253
AlreadySent(phone, sent) == phone \in sent

\* lines 271 and 274-275
NextSentCount(n, ok) == IF ok THEN n + 1 ELSE n

NextFailures_noreset(f, ok) == IF ok THEN f ELSE f + 1

\* lines 272 and 276
NextFailures(f, ok) == IF ok THEN 0 ELSE f + 1

BatchStop_never(n, c) == FALSE

\* line 280
BatchStop(n, c) == n >= c.batch_limit

BreakerStop_early(f) == f >= BreakerLimit - 1

\* line 285
BreakerStop(f) == f >= BreakerLimit

\* line 292
LongPauseDue(n, c) == n > 0 /\ n % Max(1, c.long_pause_every) = 0

DryRun_ignored(c) == FALSE

\* line 237
DryRun(c) == c.dry_run

NoStep ==
    [kind |-> "none", phone |-> <<>>, ok |-> FALSE, raised |-> FALSE, note |-> <<>>,
     slept |-> FALSE, pause |-> 0, longPause |-> FALSE, extra |-> 0, stop |-> "none"]

\* lines 230-247: load the contacts and the sent set, then open the browser
StartRun ==
    /\ pc \in {"idle", "done", "crashed"}
    /\ run < maxRuns
    /\ run' = run + 1
    /\ contacts' = load_contacts(rows, cfg.default_country_code)
    /\ sent_already' = load_sent_log(ledger)
    /\ ledger0' = ledger
    /\ hist' = <<>>
    /\ idx' = 1
    /\ sent_count' = 0
    /\ failures_in_a_row' = 0
    /\ IF Len(contacts') = 0
       THEN /\ pc' = "done"
            /\ driver' = "none"
            /\ last' = [NoStep EXCEPT !.kind = "start", !.stop = "no_contacts"]
       ELSE IF DryRun(cfg)
       THEN /\ pc' = "done"
            /\ driver' = "none"
            /\ last' = [NoStep EXCEPT !.kind = "start", !.stop = "dry_run"]
       ELSE /\ pc' = "loop"
            /\ driver' = "open"
            /\ last' = [NoStep EXCEPT !.kind = "start"]
    /\ UNCHANGED <<cfg, rows, ledger, maxRuns, delivered, fin>>

\* lines 253-254, and line 297 when this was the last contact
Skip ==
    /\ pc = "loop"
    /\ AlreadySent(contacts[idx].Phone, sent_already)
    /\ idx' = idx + 1
    /\ IF idx = Len(contacts)
       THEN /\ pc' = "done"
            /\ driver' = "closed"
            /\ last' = [NoStep EXCEPT !.kind = "skip", !.phone = contacts[idx].Phone,
                                      !.stop = "exhausted"]
       ELSE /\ pc' = "loop"
            /\ driver' = driver
            /\ last' = [NoStep EXCEPT !.kind = "skip", !.phone = contacts[idx].Phone]
    /\ UNCHANGED <<cfg, rows, ledger, ledger0, run, maxRuns, contacts, sent_already,
                   sent_count, failures_in_a_row, hist, delivered, fin>>

\* lines 256-295 for one contact, and line 297 when the loop ends here
Attempt ==
    /\ pc = "loop"
    /\ ~AlreadySent(contacts[idx].Phone, sent_already)
    /\ \E o \in {SendOutcome(cfg, d) : d \in DriverBehaviours} :
         LET phone == contacts[idx].Phone
             n     == NextSentCount(sent_count, o.ok)
             f     == NextFailures(failures_in_a_row, o.ok)
             stop  == IF BatchStop(n, cfg) THEN "batch_limit"
                      ELSE IF BreakerStop(f) THEN "breaker"
                      ELSE "none"
             long  == stop = "none" /\ LongPauseDue(n, cfg)
         IN  /\ ledger' = append_log(ledger, phone,
                                     IF o.ok THEN <<"sent">> ELSE <<"failed">>, o.note)
             /\ sent_count' = n
             /\ failures_in_a_row' = f
             /\ hist' = Append(hist, [phone |-> phone, ok |-> o.ok])
             /\ delivered' = IF o.ok THEN Append(delivered, phone) ELSE delivered
             /\ idx' = idx + 1
             /\ \E pause \in (IF stop = "none"
                              THEN Uniform(cfg.sleep_min_seconds, cfg.sleep_max_seconds)
                              ELSE {0}),
                   extra \in (IF long
                              THEN Uniform(cfg.long_pause_range_seconds[1],
                                           cfg.long_pause_range_seconds[2])
                              ELSE {0}) :
                  last' = [kind |-> "attempt", phone |-> phone, ok |-> o.ok,
                           raised |-> o.raised, note |-> o.note,
                           slept |-> stop = "none", pause |-> pause,
                           longPause |-> long, extra |-> extra,
                           stop |-> IF stop = "none" /\ idx = Len(contacts)
                                    THEN "exhausted" ELSE stop]
             /\ IF stop # "none" \/ idx = Len(contacts)
                THEN pc' = "done" /\ driver' = "closed"
                ELSE pc' = "loop" /\ driver' = driver
    /\ UNCHANGED <<cfg, rows, ledger0, run, maxRuns, contacts, sent_already, fin>>

\* lines 270 / 275 when open() or write() raises OSError: nothing is
\* written, the exception leaves main(), line 297 is not reached
AppendFails ==
    /\ pc = "loop"
    /\ ~AlreadySent(contacts[idx].Phone, sent_already)
    /\ \E o \in {SendOutcome(cfg, d) : d \in DriverBehaviours} :
         /\ hist' = Append(hist, [phone |-> contacts[idx].Phone, ok |-> o.ok])
         /\ delivered' = IF o.ok THEN Append(delivered, contacts[idx].Phone)
                         ELSE delivered
         /\ last' = [NoStep EXCEPT !.kind = "attempt", !.phone = contacts[idx].Phone,
                                   !.ok = o.ok, !.raised = o.raised, !.note = o.note,
                                   !.stop = "error"]
    /\ pc' = "crashed"
    /\ UNCHANGED <<cfg, rows, ledger, ledger0, run, maxRuns, contacts, sent_already,
                   idx, sent_count, failures_in_a_row, driver, fin>>

Next == StartRun \/ Skip \/ Attempt \/ AppendFails

---------------------------------------------------------------------------
(* Inputs: the spreadsheet and config.json                                 *)

MaxRows == 8        \* rows of the long spreadsheet (one run)
ResumeRows == 2     \* rows of the spreadsheet that is dispatched repeatedly
MediaRows == 3      \* rows of the spreadsheet sent with a media file
MaxRuns == 2        \* runs on the same ledger

DigitOf(n) == <<"0", "1", "2", "3", "4", "5", "6", "7", "8", "9">>[n + 1]

\* a 10-digit local number, different for every i < 100
LocalNumber(i) ==
    <<"9", "8", "7", "6", "5", "4", "3", "2", DigitOf((i \div 10) % 10), DigitOf(i % 10)>>

TextCell(t) == [kind |-> "str", text |-> t]

\* row i of the spreadsheet: row 3 repeats the number of row 1 in another
\* spelling, row 5 is too short, the others differ in spelling
RowAt(i) ==
    CASE i = 3 -> [Name |-> "Dup", Phone |-> TextCell(<<"+", "9", "1", " ">> \o LocalNumber(1))]
      [] i = 5 -> [Name |-> "Short", Phone |-> TextCell(<<"1", "2", "3", "4", "5">>)]
      [] i % 3 = 1 -> [Name |-> "", Phone |-> TextCell(LocalNumber(i))]
      [] i % 3 = 2 -> [Name |-> "Ravi", Phone |-> TextCell(<<"0">> \o LocalNumber(i))]
      [] OTHER -> [Name |-> "Mina", Phone |-> [kind |-> "int", text |-> LocalNumber(i)]]

Rows(n) == [i \in 1..n |-> RowAt(i)]

\* the defaults of load_config (lines 30-38), with short sleeps
DefaultConfig ==
    [media_path |-> <<>>,
     default_country_code |-> <<"9", "1">>,
     batch_limit |-> 500,
     sleep_min_seconds |-> 1,
     sleep_max_seconds |-> 2,
     long_pause_every |-> 2,
     long_pause_range_seconds |-> <<3, 3>>,
     dry_run |-> FALSE]

\* a sent_log.csv that earlier runs left: contact 1 sent, contact 2 failed
OldLedger ==
    append_log(append_log(NoLedger, <<"9", "1">> \o LocalNumber(1), <<"sent">>, <<>>),
               <<"9", "1">> \o LocalNumber(2), <<"failed">>, <<"media_send_failed">>)

Setups ==
    {[cfg |-> DefaultConfig, rows |-> Rows(MaxRows), runs |-> 1, ledger |-> NoLedger],
     [cfg |-> [DefaultConfig EXCEPT !.batch_limit = 3, !.long_pause_every = 1,
                                    !.long_pause_range_seconds = <<3, 4>>,
                                    !.sleep_max_seconds = 1],
      rows |-> Rows(MaxRows), runs |-> 1, ledger |-> NoLedger],
     [cfg |-> [DefaultConfig EXCEPT !.batch_limit = 0, !.long_pause_every = 0],
      rows |-> Rows(MaxRows), runs |-> 1, ledger |-> NoLedger],
     [cfg |-> [DefaultConfig EXCEPT !.dry_run = TRUE],
      rows |-> Rows(MaxRows), runs |-> MaxRuns, ledger |-> NoLedger],
     [cfg |-> [DefaultConfig EXCEPT !.dry_run = TRUE],
      rows |-> Rows(MaxRows), runs |-> MaxRuns, ledger |-> OldLedger],
     [cfg |-> [DefaultConfig EXCEPT !.dry_run = TRUE],
      rows |-> <<>>, runs |-> MaxRuns, ledger |-> OldLedger],
     [cfg |-> DefaultConfig, rows |-> <<>>, runs |-> MaxRuns, ledger |-> NoLedger],
     [cfg |-> [DefaultConfig EXCEPT !.sleep_max_seconds = 1],
      rows |-> Rows(ResumeRows), runs |-> MaxRuns, ledger |-> NoLedger],
     [cfg |-> [DefaultConfig EXCEPT !.sleep_max_seconds = 1, !.batch_limit = 1],
      rows |-> Rows(ResumeRows), runs |-> MaxRuns, ledger |-> NoLedger],
     [cfg |-> [DefaultConfig EXCEPT !.media_path = <<"pic.jpg">>],
      rows |-> Rows(MediaRows), runs |-> 1, ledger |-> NoLedger]}

\* the state before main() is started, for one of the setups of S
InitWith(S) ==
    /\ \E s \in S :
         /\ cfg = s.cfg /\ rows = s.rows /\ maxRuns = s.runs
         /\ ledger = s.ledger /\ ledger0 = s.ledger
    /\ pc = "idle"
    /\ run = 0
    /\ contacts = <<>>
    /\ sent_already = {}
    /\ idx = 1
    /\ sent_count = 0
    /\ failures_in_a_row = 0
    /\ driver = "none"
    /\ last = NoStep
    /\ hist = <<>>
    /\ delivered = <<>>
    /\ fin = <<>>

Init == InitWith(Setups)

Spec == Init /\ [][Next]_vars

---------------------------------------------------------------------------
(* The pure functions on their own: the inputs are drawn in the initial    *)
(* state and one step applies the function.                                *)

MaxPieces == 3      \* pieces a raw phone string is put together from
MaxSheet == 3       \* rows of a spreadsheet given to load_contacts

Idle ==
    /\ ledger = NoLedger /\ ledger0 = NoLedger /\ pc = "idle" /\ run = 0
    /\ maxRuns = 0 /\ contacts = <<>> /\ sent_already = {} /\ idx = 1
    /\ sent_count = 0 /\ failures_in_a_row = 0 /\ driver = "none"
    /\ last = NoStep /\ hist = <<>> /\ delivered = <<>>

RECURSIVE Concat(_)
Concat(ss) == IF ss = <<>> THEN <<>> ELSE Head(ss) \o Concat(Tail(ss))

SeqsUpTo(S, n) == UNION {[1..k -> S] : k \in 0..n}

\* what raw phone strings are put together from: zeros, punctuation, the
\* country code, runs of digits that add up to 8..11 digits
Pieces ==
    {<<"0">>, <<"+">>, <<"9", "1">>, <<"7">>, Rep("8", 8), Rep("6", 9), <<"-", "0">>}

SpecExample == <<"0", "9", "8", "7", "6", "5", "4", "3", "2", "1", "0">>

RawPhones == {Concat(ps) : ps \in SeqsUpTo(Pieces, MaxPieces)} \cup {SpecExample}

\* default_country_code is any string of config.json
CountryCodes == {<<"9", "1">>, <<"1">>, <<"+", "9", "1">>, <<"0", "4", "4">>}

InitNorm ==
    /\ Idle
    /\ cfg = DefaultConfig
    /\ rows = <<>>
    /\ \E r \in RawPhones, cc \in CountryCodes :
         fin = [raw |-> r, cc |-> cc, out |-> <<>>, again |-> <<>>, done |-> FALSE]

\* normalize_number applied to the input, and once more to its result
Normalize ==
    /\ ~fin.done
    /\ fin' = [fin EXCEPT !.out = normalize_number(fin.raw, fin.cc),
                          !.again = normalize_number(normalize_number(fin.raw, fin.cc),
                                                     fin.cc),
                          !.done = TRUE]
    /\ UNCHANGED <<cfg, rows, ledger, ledger0, pc, run, maxRuns, contacts, sent_already,
                   idx, sent_count, failures_in_a_row, driver, last, hist, delivered>>

SpecNorm == InitNorm /\ [][Normalize]_vars

\* cells and names load_contacts is tried on
SheetRows ==
    {[Name |-> "Asha", Phone |-> TextCell(LocalNumber(10))],
     [Name |-> "Bala", Phone |-> TextCell(<<"0">> \o LocalNumber(10))],
     [Name |-> "", Phone |-> TextCell(<<"+", "9", "1", "-">> \o LocalNumber(10))],
     [Name |-> "Chitra", Phone |-> [kind |-> "int", text |-> LocalNumber(11)]],
     [Name |-> "Devi", Phone |-> [kind |-> "float", text |-> LocalNumber(11)]],
     [Name |-> "Esha", Phone |-> TextCell(<<"1", "2", "3", "4", "5">>)],
     [Name |-> "Firoz", Phone |-> [kind |-> "nan", text |-> <<>>]],
     [Name |-> "Gita", Phone |-> [kind |-> "none", text |-> <<>>]]}

InitContacts ==
    /\ Idle
    /\ \E cc \in CountryCodes : cfg = [DefaultConfig EXCEPT !.default_country_code = cc]
    /\ rows \in SeqsUpTo(SheetRows, MaxSheet)
    /\ fin = [out |-> <<>>, done |-> FALSE]

\* load_contacts applied to the spreadsheet
LoadContacts ==
    /\ ~fin.done
    /\ fin' = [out |-> load_contacts(rows, cfg.default_country_code), done |-> TRUE]
    /\ UNCHANGED <<cfg, rows, ledger, ledger0, pc, run, maxRuns, contacts, sent_already,
                   idx, sent_count, failures_in_a_row, driver, last, hist, delivered>>

SpecContacts == InitContacts /\ [][LoadContacts]_vars

---------------------------------------------------------------------------
(* The send protocol step by step: one attempt on one contact, one action  *)
(* per call on the driver.  fin.trace lists what was done to the page, in  *)
(* order; fin.d notes what the browser did at each step ("-": the step was *)
(* not reached).                                                           *)

MaxPolls == 2       \* polls of wait_for_composer before its timeout is over
MaxInputs == 2      \* input[type='file'] elements the page holds at most

ProtoPhone == <<"9", "1">> \o LocalNumber(1)

NoBehaviour ==
    [get |-> "-", composer |-> "-", enter |-> "-", send_check |-> "-", attach |-> "-",
     file_input |-> "-", inputs |-> 0, upload |-> "-", send_btn |-> "-",
     fallback |-> "-", followup |-> "-"]

NoResult == [raised |-> FALSE, ok |-> FALSE, note |-> <<"-">>, exc |-> <<>>]

Others == <<cfg, rows, ledger0, pc, run, maxRuns, contacts, sent_already, idx,
            sent_count, failures_in_a_row, driver, last, hist, delivered>>

\* line 259: `if media_path`
Media == cfg.media_path # <<>>

\* the except clauses of lines 135-136 and 209-210
Caught(msg) ==
    Returned(FALSE, (IF Media THEN <<"media_send_error: ">> ELSE <<"text_send_error: ">>)
                    \o msg)

\* lines 262-267 and 269 / 274: what main makes of the protocol's result
Outcome(r) ==
    IF r.raised
    THEN [ok |-> FALSE, note |-> <<"exception: ">> \o r.exc, raised |-> TRUE]
    ELSE [ok |-> r.ok, note |-> r.note, raised |-> FALSE]

InitProtocol ==
    /\ cfg \in {DefaultConfig, [DefaultConfig EXCEPT !.media_path = <<"pic.jpg">>]}
    /\ rows = <<>>
    /\ ledger \in {NoLedger, OldLedger}
    /\ ledger0 = ledger
    /\ pc = "protocol"
    /\ run = 0 /\ maxRuns = 0 /\ contacts = <<>> /\ sent_already = {} /\ idx = 1
    /\ sent_count = 0 /\ failures_in_a_row = 0 /\ driver = "open"
    /\ last = NoStep /\ hist = <<>> /\ delivered = <<>>
    /\ fin = [at |-> "get", d |-> NoBehaviour, polls |-> 0, trace |-> <<>>,
              target |-> 0, result |-> NoResult]

\* lines 117 and 193: driver.get(url), before the try
Navigate ==
    /\ pc = "protocol" /\ fin.at = "get"
    /\ \E g \in {"ok", "raise"} :
         fin' = IF g = "raise"
                THEN [fin EXCEPT !.d.get = g, !.at = "end", !.result = Raised(DriverMsg)]
                ELSE [fin EXCEPT !.d.get = g, !.at = "composer",
                                 !.trace = Append(@, "get")]
    /\ UNCHANGED <<ledger, Others>>

\* lines 104-112: one round of the loop of wait_for_composer
PollComposer ==
    /\ pc = "protocol" /\ fin.at = "composer"
    /\ fin.polls < MaxPolls
    /\ \E displayed \in BOOLEAN :
         fin' = IF displayed
                THEN [fin EXCEPT !.polls = @ + 1, !.d.composer = "visible",
                                 !.at = IF Media THEN "attach" ELSE "enter",
                                 !.trace = Append(@, "composer")]
                ELSE [fin EXCEPT !.polls = @ + 1]
    /\ UNCHANGED <<ledger, Others>>

ComposerTimeout_ignored ==
    /\ pc = "protocol" /\ fin.at = "composer"
    /\ fin.polls >= MaxPolls
    /\ fin' = [fin EXCEPT !.d.composer = "timeout",
                          !.at = IF Media THEN "attach" ELSE "enter"]
    /\ UNCHANGED <<ledger, Others>>

\* line 113, caught at line 135 / 209
ComposerTimeout ==
    /\ pc = "protocol" /\ fin.at = "composer"
    /\ fin.polls >= MaxPolls
    /\ fin' = [fin EXCEPT !.d.composer = "timeout", !.at = "end",
                          !.result = Caught(TimeoutMsg)]
    /\ UNCHANGED <<ledger, Others>>

\* line 123
SubmitEnter ==
    /\ pc = "protocol" /\ fin.at = "enter"
    /\ \E k \in {"ok", "raise"} :
         fin' = IF k = "raise"
                THEN [fin EXCEPT !.d.enter = k, !.at = "end", !.result = Caught(DriverMsg)]
                ELSE [fin EXCEPT !.d.enter = k, !.at = "send_check",
                                 !.trace = Append(@, "enter")]
    /\ UNCHANGED <<ledger, Others>>

\* lines 127-134: the send button is clicked if it is still shown; an
\* exception here is passed over
SendCheck ==
    /\ pc = "protocol" /\ fin.at = "send_check"
    /\ \E c \in {"clicked", "hidden", "raise"} :
         fin' = [fin EXCEPT !.d.send_check = c, !.at = "end",
                            !.trace = IF c = "clicked" THEN Append(@, "click_send") ELSE @,
                            !.result = Returned(TRUE, <<>>)]
    /\ UNCHANGED <<ledger, Others>>

\* lines 147-155: the first attach control that can be clicked, if any
ClickAttach ==
    /\ pc = "protocol" /\ fin.at = "attach"
    /\ \E a \in {"clicked", "none"} :
         fin' = [fin EXCEPT !.d.attach = a, !.at = "file_input",
                            !.trace = IF a = "clicked" THEN Append(@, "click_attach") ELSE @]
    /\ UNCHANGED <<ledger, Others>>

\* lines 157-165: the file inputs, at once or within 10 seconds, or the
\* RuntimeError (caught at line 209)
FindFileInput ==
    /\ pc = "protocol" /\ fin.at = "file_input"
    /\ \/ fin' = [fin EXCEPT !.d.file_input = "absent", !.at = "end",
                             !.result = Caught(NoFileInputMsg)]
       \/ \E f \in {"found", "late"}, n \in 1..MaxInputs :
            fin' = [fin EXCEPT !.d.file_input = f, !.d.inputs = n, !.at = "upload"]
    /\ UNCHANGED <<ledger, Others>>

FirstInput(n) == 1

\* line 167: file_inputs[-1]
LastInput(n) == n

\* line 167: send_keys(abs_path)
Upload ==
    /\ pc = "protocol" /\ fin.at = "upload"
    /\ \E u \in {"ok", "raise"} :
         fin' = IF u = "raise"
                THEN [fin EXCEPT !.d.upload = u, !.at = "end", !.result = Caught(DriverMsg)]
                ELSE [fin EXCEPT !.d.upload = u, !.at = "send_btn",
                                 !.target = LastInput(fin.d.inputs),
                                 !.trace = Append(@, "upload")]
    /\ UNCHANGED <<ledger, Others>>

\* lines 175-181: the first send control that becomes clickable, if any
ClickSend ==
    /\ pc = "protocol" /\ fin.at = "send_btn"
    /\ \E s \in {"clicked", "none"} :
         fin' = IF s = "clicked"
                THEN [fin EXCEPT !.d.send_btn = s, !.at = "followup",
                                 !.trace = Append(@, "click_send")]
                ELSE [fin EXCEPT !.d.send_btn = s, !.at = "fallback"]
    /\ UNCHANGED <<ledger, Others>>

\* lines 183-189 and 208: ENTER in the composer; if that fails, False
Fallback ==
    /\ pc = "protocol" /\ fin.at = "fallback"
    /\ \E fb \in {"ok", "timeout", "raise"} :
         fin' = CASE fb = "ok" ->
                       [fin EXCEPT !.d.fallback = "ok", !.at = "followup",
                                   !.trace = @ \o <<"composer", "enter">>]
                  [] fb = "timeout" ->
                       [fin EXCEPT !.d.fallback = "fail", !.at = "end",
                                   !.result = Returned(FALSE, <<"media_send_failed">>)]
                  [] OTHER ->
                       [fin EXCEPT !.d.fallback = "fail", !.at = "end",
                                   !.trace = Append(@, "composer"),
                                   !.result = Returned(FALSE, <<"media_send_failed">>)]
    /\ UNCHANGED <<ledger, Others>>

FollowUpResult_fatal(fu) ==
    IF fu = "ok" THEN Returned(TRUE, <<>>)
    ELSE Caught(IF fu = "timeout" THEN TimeoutMsg ELSE DriverMsg)

\* lines 201-207: whatever the follow-up did, True and ""
FollowUpResult(fu) == Returned(TRUE, <<>>)

\* lines 199-207: ENTER again for the text
FollowUp ==
    /\ pc = "protocol" /\ fin.at = "followup"
    /\ \E fu \in {"ok", "timeout", "raise"} :
         fin' = [fin EXCEPT !.d.followup = fu, !.at = "end",
                            !.trace = CASE fu = "ok" -> @ \o <<"composer", "enter">>
                                        [] fu = "raise" -> Append(@, "composer")
                                        [] OTHER -> @,
                            !.result = FollowUpResult(fu)]
    /\ UNCHANGED <<ledger, Others>>

\* lines 262-277: the except clause of main and the ledger entry
Record ==
    /\ pc = "protocol" /\ fin.at = "end"
    /\ ledger' = append_log(ledger, ProtoPhone,
                            IF Outcome(fin.result).ok THEN <<"sent">> ELSE <<"failed">>,
                            Outcome(fin.result).note)
    /\ fin' = [fin EXCEPT !.at = "logged"]
    /\ UNCHANGED Others

NextProtocol ==
    \/ Navigate \/ PollComposer \/ ComposerTimeout \/ SubmitEnter \/ SendCheck
    \/ ClickAttach \/ FindFileInput \/ Upload \/ ClickSend \/ Fallback \/ FollowUp
    \/ Record

SpecProtocol == InitProtocol /\ [][NextProtocol]_vars

---------------------------------------------------------------------------
(* Runs and attempts together, with the progress the interpreter gives:    *)
(* a loop iteration that has begun is carried out, and so is the next call *)
(* of an attempt.  Starting a run is left to the operator (the program     *)
(* waits for ENTER at line 244).                                           *)

\* the runs whose end is followed: pauses of one length (their length has
\* no part in how a run ends), a batch limit that sends on the long list
\* can reach, a dry run, an empty list, a media run, runs that resume
LiveConfig == [DefaultConfig EXCEPT !.sleep_max_seconds = 1]

LiveSetups ==
    {[cfg |-> [LiveConfig EXCEPT !.batch_limit = 2],
      rows |-> Rows(MaxRows), runs |-> 1, ledger |-> NoLedger],
     [cfg |-> [LiveConfig EXCEPT !.dry_run = TRUE],
      rows |-> Rows(MaxRows), runs |-> MaxRuns, ledger |-> OldLedger],
     [cfg |-> LiveConfig, rows |-> <<>>, runs |-> MaxRuns, ledger |-> NoLedger],
     [cfg |-> [LiveConfig EXCEPT !.batch_limit = 1],
      rows |-> Rows(ResumeRows), runs |-> MaxRuns, ledger |-> NoLedger],
     [cfg |-> [LiveConfig EXCEPT !.media_path = <<"pic.jpg">>],
      rows |-> Rows(MediaRows), runs |-> 1, ledger |-> NoLedger]}

InitLive == InitWith(LiveSetups)

InitAll == InitLive \/ InitProtocol

NextAll == Next \/ NextProtocol

SpecLive ==
    /\ InitAll
    /\ [][NextAll]_vars
    /\ WF_vars(Skip \/ Attempt \/ AppendFails)
    /\ WF_vars(NextProtocol)

---------------------------------------------------------------------------
(* Reading the ledger text record by record, for the properties below      *)

LedgerLines(led) == Split(led.text, NL)

\* line is a record of phone p with status st
IsEntry(line, p, st) ==
    LET f == Split(line, COMMA)
    IN  Len(f) >= 3 /\ f[2] = p /\ f[3] = <<st>>

CountEntries(led, p, st) ==
    LET lines == LedgerLines(led)
    IN  Cardinality({i \in 1..Len(lines) : IsEntry(lines[i], p, st)})

CountStatus(led, st) ==
    LET lines == LedgerLines(led)
    IN  Cardinality({i \in 1..Len(lines) :
                       LET f == Split(lines[i], COMMA) IN Len(f) >= 3 /\ f[3] = <<st>>})

HasSentRecord(led, p) == CountEntries(led, p, "sent") > 0

ContactPhones == {contacts[i].Phone : i \in 1..Len(contacts)}

\* the number of failed attempts at the end of h
Streak(h) == Cardinality({i \in 1..Len(h) : \A j \in i..Len(h) : ~h[j].ok})

CountOk(h) == Cardinality({i \in 1..Len(h) : h[i].ok})

IsPosMultiple(n, k) == n > 0 /\ \E m \in 1..n : n = m * k

---------------------------------------------------------------------------
(* Properties                                                              *)

\* C1: a contact whose phone has a `sent` record in the ledger the run
\* started from is not attempted in that run, and no ledger entry is
\* appended for it.
C1_IdempotentResume ==
    /\ \A i \in 1..Len(hist) : ~HasSentRecord(ledger0, hist[i].phone)
    /\ \A p \in ContactPhones :
         HasSentRecord(ledger0, p) =>
            /\ CountEntries(ledger, p, "sent") = CountEntries(ledger0, p, "sent")
            /\ CountEntries(ledger, p, "failed") = CountEntries(ledger0, p, "failed")

\* C2: once 5 attempts in a row have failed the run is over and no further
\* attempt follows; the breaker stops no run whose current streak of
\* failures is shorter than 5.
C2_CircuitBreaker ==
    /\ Streak(hist) >= 5 => pc # "loop"
    /\ \A i \in 1..(Len(hist) - 1) : Streak(SubSeq(hist, 1, i)) < 5
    /\ last.stop = "breaker" => Streak(hist) >= 5

\* C2 witness: the breaker has tripped in a run that also had a success
C2_Witness ==
    /\ last.stop = "breaker"
    /\ \E i \in 1..Len(hist) : hist[i].ok

\* C3: a run writes at most batch_limit `sent` entries, attempts nothing
\* once batch_limit sends have succeeded, and writes exactly batch_limit
\* when that many eligible contacts all succeed.
C3_BatchCap ==
    /\ CountStatus(ledger, "sent") - CountStatus(ledger0, "sent") <= cfg.batch_limit
    /\ \A i \in 1..Len(hist) : CountOk(SubSeq(hist, 1, i - 1)) < cfg.batch_limit
    /\ (/\ pc = "done"
        /\ last.kind = "attempt"
        /\ \A i \in 1..Len(hist) : hist[i].ok
        /\ Cardinality({p \in ContactPhones : ~HasSentRecord(ledger0, p)}) >= cfg.batch_limit)
       => CountStatus(ledger, "sent") - CountStatus(ledger0, "sent") = cfg.batch_limit

\* C4: a long pause follows an attempt exactly when the attempt was a
\* successful send that brought sent_count to a positive multiple of
\* long_pause_every; in particular none follows a failed attempt.
C4_LongPause ==
    (last.kind = "attempt" /\ last.stop # "error") =>
        (last.longPause <=>
            (last.ok /\ IsPosMultiple(sent_count, cfg.long_pause_every)))

\* C5: whatever runs were made on the ledger, it never holds two `sent`
\* records for the same phone.
C5_NoDoubleSend ==
    \A p \in ContactPhones : CountEntries(ledger, p, "sent") <= 1

\* C6: every step leaves the old ledger text in place at the start of the
\* new text, and what it adds begins with the header line exactly when the
\* file did not exist before.
C6_AppendOnly ==
    [][/\ IsPrefix(ledger.text, ledger'.text)
       /\ ledger.exists => ledger'.exists
       /\ LET added == SubSeq(ledger'.text, Len(ledger.text) + 1, Len(ledger'.text))
          IN  /\ StartsWith(added, HeaderLine) <=> (~ledger.exists /\ ledger'.exists)
              /\ \A i \in 2..Len(added) : added[i] # "timestamp"]_vars

\* C6 witness: a later run has appended to the ledger an earlier run left
C6_Witness ==
    /\ run >= 2
    /\ ledger0.exists
    /\ Len(ledger.text) > Len(ledger0.text)

\* C7: a run that opened the browser session has closed it when it is over,
\* however it ended.
C7_DriverReleased ==
    (pc \in {"done", "crashed"} /\ driver # "none") => driver = "closed"

SignificantPositions(raw) ==
    {i \in 1..Len(raw) :
        /\ raw[i] \in Digits
        /\ \E j \in 1..i : raw[j] \in Digits /\ raw[j] # "0"}

\* the members of a set of positions, in increasing order
Ordered(P) ==
    [k \in 1..Cardinality(P) |->
        CHOOSE i \in P : Cardinality({j \in P : j < i}) = k - 1]

Reference(raw, cc) ==
    LET pos  == Ordered(SignificantPositions(raw))
        core == [k \in 1..Len(pos) |-> raw[pos[k]]]
        hasCc == /\ Len(core) >= Len(cc)
                 /\ \A k \in 1..Len(cc) : core[k] = cc[k]
    IN  IF Len(core) = 10 /\ ~hasCc THEN cc \o core ELSE core

DigitCount(s) == Cardinality({i \in 1..Len(s) : s[i] \in Digits})

\* a country code made of digits that does not begin with 0
WellFormedCc(cc) == cc # <<>> /\ cc[1] # "0" /\ \A i \in 1..Len(cc) : cc[i] \in Digits

NormalizeMatchesReference ==
    /\ fin.out = Reference(fin.raw, fin.cc)
    /\ (fin.raw = SpecExample /\ fin.cc = <<"9", "1">>)
         => fin.out = <<"9", "1", "9", "8", "7", "6", "5", "4", "3", "2", "1", "0">>

\* C9 as stated: normalize equals the reference, a string that is not 10
\* digits long after stripping comes back without prefix, the example of
\* the specification holds, and normalising a result that is not 10 digits
\* long gives the same result again.
C9_NormalizeAsStated ==
    fin.done =>
        /\ NormalizeMatchesReference
        /\ Len(Ordered(SignificantPositions(fin.raw))) # 10
             => fin.out = [k \in 1..Cardinality(SignificantPositions(fin.raw)) |->
                              fin.raw[Ordered(SignificantPositions(fin.raw))[k]]]
        /\ DigitCount(fin.out) # 10 => fin.again = fin.out

\* C9 as amended: the same, with idempotence claimed only for a country
\* code that consists of digits and does not begin with 0.
C9_Normalize ==
    fin.done =>
        /\ NormalizeMatchesReference
        /\ Len(Ordered(SignificantPositions(fin.raw))) # 10
             => fin.out = [k \in 1..Cardinality(SignificantPositions(fin.raw)) |->
                              fin.raw[Ordered(SignificantPositions(fin.raw))[k]]]
        /\ (WellFormedCc(fin.cc) /\ DigitCount(fin.out) # 10) => fin.again = fin.out

\* C9 witness: a 10-digit number behind a leading zero and punctuation got
\* the country code, and normalising the result again changed nothing
C9_Witness ==
    /\ fin.done
    /\ fin.cc = <<"9", "1">>
    /\ Len(fin.raw) > 10
    /\ fin.raw[1] \notin Digits
    /\ Len(fin.out) = 12
    /\ StartsWith(fin.out, fin.cc)
    /\ fin.again = fin.out

\* C10: load_contacts returns, in input order, exactly the rows whose
\* normalised phone has at least 10 digits and occurs in no earlier row,
\* each with its own name; so the phones returned are distinct and at
\* least 10 digits long and a repeated phone carries the first row's name.
C10_LoadContacts ==
    fin.done =>
        LET cc   == cfg.default_country_code
            pn   == [i \in 1..Len(rows) |-> PhoneNorm(rows[i].Phone, cc)]
            keep == Ordered({i \in 1..Len(rows) :
                               /\ DigitCount(pn[i]) >= 10
                               /\ \A j \in 1..(i - 1) : pn[j] # pn[i]})
        IN  /\ fin.out = [k \in 1..Len(keep) |->
                            [Name |-> rows[keep[k]].Name, Phone |-> pn[keep[k]]]]
            /\ \A a, b \in 1..Len(fin.out) :
                 fin.out[a].Phone = fin.out[b].Phone => a = b
            /\ \A a \in 1..Len(fin.out) : DigitCount(fin.out[a].Phone) >= 10

\* C10 witness: two rows with the same normalised phone and different
\* names, a third row too short; one contact comes back, with the first name
C10_Witness ==
    /\ fin.done
    /\ Len(rows) = 3
    /\ Len(fin.out) = 1
    /\ \E i, j \in 1..3 :
         /\ i < j
         /\ rows[i].Name # rows[j].Name
         /\ rows[i].Phone # rows[j].Phone
         /\ PhoneNorm(rows[i].Phone, cfg.default_country_code)
              = PhoneNorm(rows[j].Phone, cfg.default_country_code)
         /\ fin.out[1].Name = rows[i].Name
    /\ \E i \in 1..3 : Len(PhoneNorm(rows[i].Phone, cfg.default_country_code)) \in 1..9

\* C11: with dry_run set no step of any run opens the browser session,
\* invokes a send protocol or touches the ledger: the ledger file stays as
\* it was found (absent stays absent), the run is over right after loading.
C11_DryRun ==
    /\ [](cfg.dry_run =>
            /\ driver = "none"
            /\ pc \in {"idle", "done"}
            /\ hist = <<>>
            /\ delivered = <<>>
            /\ last.kind \in {"none", "start"}
            /\ ledger = ledger0)
    /\ [][cfg.dry_run => ledger' = ledger /\ ledger0' = ledger0]_vars

\* C11 witness: a dry run over a list with contacts has ended; a ledger
\* with a `sent` record was there and has been read
C11_Witness ==
    /\ cfg.dry_run
    /\ pc = "done"
    /\ last.stop = "dry_run"
    /\ Len(contacts) > 0
    /\ ledger.exists
    /\ sent_already # {}
    /\ ledger = OldLedger


InTrace(a) == \E i \in 1..Len(fin.trace) : fin.trace[i] = a

AttemptOver == pc = "protocol" /\ fin.at \in {"end", "logged"}

\* the step-by-step protocol and the protocol functions used by the
\* dispatch loop give the same result for the same behaviour of the browser
ProtocolAgrees ==
    AttemptOver =>
        /\ fin.result = (IF Media THEN send_text_and_media(fin.d) ELSE send_text_only(fin.d))
        /\ Outcome(fin.result) = SendOutcome(cfg, fin.d)


\* C12: a text-only attempt never ends with an exception leaving
\* send_text_only: when navigation, the composer wait or the submit
\* keystroke failed the result is (false, "text_send_error...") and in
\* every other case, a failed send-button check included, it is (true, "").
C12_TextFailure ==
    (AttemptOver /\ ~Media) =>
        /\ ~fin.result.raised
        /\ IF fin.d.get = "raise" \/ fin.d.composer = "timeout" \/ fin.d.enter = "raise"
           THEN /\ ~fin.result.ok
                /\ StartsWith(fin.result.note, <<"text_send_error: ">>)
           ELSE /\ fin.result.ok
                /\ fin.result.note = <<>>


\* the records in a piece of ledger text, in order, each as its fields (a
\* record is a line with at least three fields, the third `sent` or `failed`)
Records(text) ==
    LET lines  == Split(text, NL)
        fields == [i \in 1..Len(lines) |-> Split(lines[i], COMMA)]
        isRec(f) == Len(f) >= 3 /\ f[3] \in {<<"sent">>, <<"failed">>}
    IN  SelectSeq(fields, isRec)

Statuses(text) == [i \in 1..Len(Records(text)) |-> Records(text)[i][3]]

\* what has been added to the ledger since the run started
AddedByRun == SubSeq(ledger.text, Len(ledger0.text) + 1, Len(ledger.text))

C14_Pacing ==
    /\ (last.kind = "attempt" /\ last.stop # "error") =>
          /\ last.slept <=> (pc = "loop" /\ idx <= Len(contacts))
          /\ last.slept => /\ last.pause >= cfg.sleep_min_seconds
                           /\ last.pause <= cfg.sleep_max_seconds
    /\ last.kind = "skip" => ~last.slept


\* the lines of the ledger file (the text ends with a line break, so the
\* piece after the last line break is not a line)
FileLines(led) ==
    LET pieces == Split(led.text, NL)
    IN  IF led.text # <<>> /\ led.text[Len(led.text)] = NL
        THEN SubSeq(pieces, 1, Len(pieces) - 1)
        ELSE pieces

\* C15: the ledger file is the header line followed by one line per
\* appended record, and every line has exactly four comma-separated fields.
C15_OneRecordPerLine ==
    ledger.exists =>
        LET lines == FileLines(ledger)
        IN  /\ \A i \in 1..Len(lines) : Len(Split(lines[i], COMMA)) = 4
            /\ lines[1] \o <<NL>> = HeaderLine
            /\ Len(lines) = 1 + Len(Statuses(ledger.text))


\* the media send step has succeeded: the file was supplied and after that
\* a send control was clicked or the fallback pressed ENTER
MediaSent ==
    \E i \in 1..Len(fin.trace) :
        /\ fin.trace[i] = "upload"
        /\ \E j \in (i + 1)..Len(fin.trace) : fin.trace[j] \in {"click_send", "enter"}

\* C16: a media attempt whose media send step succeeded returns (true, "")
\* whatever the text follow-up did, and its ledger entry is one `sent`
\* record and no `failed` one.
C16_FollowUpSwallowed ==
    (AttemptOver /\ Media /\ MediaSent) =>
        /\ fin.result = Returned(TRUE, <<>>)
        /\ fin.at = "logged" =>
             /\ CountEntries(ledger, ProtoPhone, "sent")
                  = CountEntries(ledger0, ProtoPhone, "sent") + 1
             /\ CountStatus(ledger, "failed") = CountStatus(ledger0, "failed")
             /\ Len(Statuses(ledger.text)) = Len(Statuses(ledger0.text)) + 1

\* C16 witness: the fallback submitted the media, the follow-up timed out,
\* and the attempt is in the ledger
C16_Witness ==
    /\ pc = "protocol" /\ Media
    /\ fin.at = "logged"
    /\ fin.d.send_btn = "none" /\ fin.d.fallback = "ok"
    /\ fin.d.followup \in {"timeout", "raise"}
    /\ ledger0.exists

\* C17: in a media attempt (a) when no attach control could be clicked but a
\* file input is there, the file goes to the last input and the attempt
\* then succeeds or fails by the send step alone; (b) when no file input is
\* found the result is (false, "media_send_error...") and neither a file
\* was supplied nor a send control or key activated; (c) when the file was
\* supplied, no send control clicked and the fallback failed, the result is
\* (false, "media_send_failed").
C17_AttachUpload ==
    (AttemptOver /\ Media) =>
        /\ (fin.d.attach = "none" /\ fin.d.file_input \in {"found", "late"}
              /\ fin.d.upload = "ok") =>
             /\ InTrace("upload")
             /\ fin.target = fin.d.inputs
             /\ fin.result.ok <=> (fin.d.send_btn = "clicked" \/ fin.d.fallback = "ok")
        /\ \A i \in 1..Len(fin.trace) : fin.trace[i] = "upload" => fin.target = fin.d.inputs
        /\ fin.d.file_input = "absent" =>
             /\ ~fin.result.raised /\ ~fin.result.ok
             /\ StartsWith(fin.result.note, <<"media_send_error: ">>)
             /\ ~InTrace("upload") /\ ~InTrace("click_send") /\ ~InTrace("enter")
             /\ fin.target = 0
        /\ (InTrace("upload") /\ fin.d.send_btn = "none" /\ fin.d.fallback = "fail") =>
             fin.result = Returned(FALSE, <<"media_send_failed">>)

\* C17 witness: no attach control was clicked, the inputs came late, the
\* file went to the second of two and the send control was clicked
C17_Witness ==
    /\ AttemptOver /\ Media
    /\ fin.d.attach = "none"
    /\ fin.d.file_input = "late"
    /\ fin.d.inputs = 2 /\ fin.target = 2
    /\ fin.d.send_btn = "clicked"
    /\ fin.result.ok

\* C18: at every point of an attempt a submit keystroke, a click on a send
\* control and a file upload come after the composer was found, which comes
\* after the navigation; when the composer wait times out the attempt is
\* over, failed, and the page was only navigated; in the media variant a
\* click on a send control comes after the upload.
C18_StepOrder ==
    pc = "protocol" =>
        /\ \A i \in 1..Len(fin.trace) :
             fin.trace[i] \in {"enter", "click_send", "upload"} =>
                \E j \in 1..(i - 1) :
                    /\ fin.trace[j] = "composer"
                    /\ \E k \in 1..(j - 1) : fin.trace[k] = "get"
        /\ fin.d.composer = "timeout" =>
             /\ fin.at \in {"end", "logged"}
             /\ ~fin.result.ok
             /\ fin.trace = <<"get">>
             /\ fin.polls = MaxPolls
        /\ Media =>
             \A i \in 1..Len(fin.trace) :
                fin.trace[i] = "click_send" =>
                   \E j \in 1..(i - 1) : fin.trace[j] = "upload"

\* C18 witness: a media attempt found the composer at its last poll,
\* uploaded, clicked send and submitted the text
C18_Witness ==
    /\ pc = "protocol" /\ Media
    /\ fin.polls = MaxPolls
    /\ fin.d.attach = "clicked"
    /\ fin.trace = <<"get", "composer", "click_attach", "upload", "click_send",
                     "composer", "enter">>


\* the phones that have a `sent` record in the ledger
SentPhones(led) ==
    LET lines == LedgerLines(led)
    IN  {Split(lines[i], COMMA)[2] :
            i \in {j \in 1..Len(lines) :
                     LET f == Split(lines[j], COMMA)
                     IN  Len(f) >= 3 /\ f[3] = <<"sent">>}}

\* C20: the sent set a run works with is exactly the set of phones with a
\* `sent` record in the ledger the run found (empty when there was none);
\* a contact whose records in that ledger are all `failed` is not in it.
C20_SentSet ==
    pc \in {"loop", "done", "crashed"} =>
        /\ sent_already = SentPhones(ledger0)
        /\ \A p \in ContactPhones :
             (CountEntries(ledger0, p, "failed") > 0 /\ ~HasSentRecord(ledger0, p))
                => p \notin sent_already


ThreeReasons == {"exhausted", "batch_limit", "breaker"}

=============================================================================
